---- MODULE Spec2Model ----
(***************************************************************************)
(* Request admission and session control layer of the chat front-end:      *)
(* the token-bucket RateLimiter (src/lib/rate-limit.ts), the generic       *)
(* LRUCache (src/lib/cache/lru-cache.ts), the SessionCache                 *)
(* (src/lib/cache/chat-cache.ts), the history trimmer (src/lib/tokens) and *)
(* the POST handler that ties them together (src/app/api/chat/route.ts).   *)
(*                                                                         *)
(* Time is Date.now() in milliseconds.  Token counts are JavaScript        *)
(* numbers; they are kept here as exact integers in units of 1/Scale of a  *)
(* token, and a refill rate as units per millisecond, so that              *)
(*   tokens + ((now - lastRefill) / 1000) * refillRate                     *)
(* is computed without rounding.                                           *)
(***************************************************************************)
EXTENDS Integers, Sequences, FiniteSets, TLC

(***************************************************************************)
(* Bounds of the model.                                                    *)
(***************************************************************************)
NumKeys == 2
MaxTicks == 2
MaxRefillTicks == 6
NumCacheKeys == 3
MaxCacheTicks == 2
MaxSessionTicks == 2
MaxCount == 1

(***************************************************************************)
(* Units and program constants.                                            *)
(***************************************************************************)
Scale == 1000000
StartTime == 1000
MIN_REQUEST_INTERVAL == 500
staleThreshold == 300000
maxUsers == 1

Keys == 1..NumKeys

\* How far the clock moves between two cache operations
CacheSteps == {400, 600}

Min(a, b) == IF a <= b THEN a ELSE b

CeilDiv(a, b) == IF a <= 0 THEN -((-a) \div b) ELSE (a + b - 1) \div b

\* Math.floor of a token amount, in whole tokens
Floor(x) == x \div Scale

\* A token amount that is returned as it is (remaining: entry.tokens at first
\* sight), in whole tokens: maxTokens is a whole number of requests, so
\* maxTokens - 1 has no fraction
WholeTokens(x) == x \div Scale

VARIABLES
    now,          \* Date.now()
    ticks,        \* how many times the clock has moved
    config,       \* RateLimiter.config
    buckets,      \* RateLimiter.buckets : Map<string, RateLimitEntry>
    cleanupTimer, \* RateLimiter.cleanupTimer: "set" or "null"
    cleanupDue,   \* the time the interval timer next fires
    ret,          \* the last call and what it returned
    allowedAt,    \* per key, the most recent admitted checks (history)
    run,          \* per key, the run of well-spaced checks since first sight (history)
    options,      \* LRUCache: maxSize, ttl (0 is null), whether onEvict is configured
    cache,        \* LRUCache.cache : Map<string, CacheEntry>, in insertion order
    evicted,      \* the onEvict(key, value) calls of the last cache operation
    lret,         \* the last cache operation and what it returned
    sconfig,      \* SessionCache.config
    sessions,     \* SessionCache.sessions : Map<string, CachedSession>, in insertion order
    scTimer,      \* SessionCache.cleanupTimer: "set" or "null"
    scDue,        \* the time the session sweep next fires
    sret          \* the last session store operation and what it returned

rlState == <<config, buckets, cleanupTimer, cleanupDue, ret, allowedAt, run>>

lruState == <<options, cache, evicted, lret>>

scState == <<sconfig, sessions, scTimer, scDue, sret>>

(***************************************************************************)
(* SessionCache                                                            *)
(***************************************************************************)

\* null, where a ChatSession is expected
NoHandle == 0

\* The ChatSession objects handed to set
Handles == {1, 2}

\* CacheConfig: DEFAULT_CONFIG
DEFAULT_CONFIG ==
    [sessionTimeout |-> 30 * 60 * 1000, maxSessions |-> 1000,
     cleanupInterval |-> 5 * 60 * 1000]

\* The configurations a store is constructed with
SessionConfigs ==
    [sessionTimeout : {1000}, maxSessions : {1, 2}, cleanupInterval : {600}]

\* How far the clock moves between two session store operations
SessionSteps == {500, 1001}

\* No operation: the call, its time, what it found and returned, and, of the
\* store before it, the number of sessions and how long ago the session of
\* the key was last accessed (-1 without one)
NoSret ==
    [op |-> "none", key |-> 0, at |-> 0, found |-> FALSE, result |-> NoHandle,
     size |-> 0, age |-> -1]

\* new SessionCache(c), constructed at time t
SessionInitWith(cs, t) ==
    /\ sconfig \in cs
    /\ sessions = <<>>
    /\ scTimer = "set"
    /\ scDue = t + sconfig.cleanupInterval
    /\ sret = NoSret

\* this.sessions.has(userId)
HasSession(c, k) == \E i \in 1..Len(c) : c[i].key = k

\* this.sessions.get(userId), for a key the map holds
SessionOf(c, k) == c[CHOOSE i \in 1..Len(c) : c[i].key = k]

\* Date.now() - cached.lastAccessed, -1 without a session of the key
Age(c, k, t) == IF HasSession(c, k) THEN t - SessionOf(c, k).lastAccessed ELSE -1

\* this.sessions.delete(id), for each id of ks
Drop(c, ks) == SelectSeq(c, LAMBDA s : s.key \notin ks)

\* Expiry with the boundary on the other side
SessionExpiredGe(s, t) == t - s.lastAccessed >= sconfig.sessionTimeout

\* Date.now() - cached.lastAccessed > this.config.sessionTimeout
SessionExpired(s, t) == t - s.lastAccessed > sconfig.sessionTimeout

\* cached.lastAccessed = Date.now()
Touch(c, k, t) ==
    [i \in 1..Len(c) |->
        IF c[i].key = k THEN [c[i] EXCEPT !.lastAccessed = t] ELSE c[i]]

\* What get(userId) returns at time t
GetValue(c, k, t) ==
    IF HasSession(c, k) /\ ~SessionExpired(SessionOf(c, k), t)
    THEN SessionOf(c, k).session
    ELSE NoHandle

\* The map get(userId) leaves at time t
GetSessions(c, k, t) ==
    IF ~HasSession(c, k) THEN c
    ELSE IF SessionExpired(SessionOf(c, k), t) THEN Drop(c, {k})
    ELSE Touch(c, k, t)

\* The entry the loop of evictOldest settles on, 0 when oldestId stays null:
\* the first one, in the order of the map, with the smallest lastAccessed
\* among those with lastAccessed < Date.now()
OldestIndex(c, t) ==
    LET older == {i \in 1..Len(c) : c[i].lastAccessed < t}
    IN  IF older = {} THEN 0
        ELSE CHOOSE i \in older :
                \A j \in older :
                    \/ c[i].lastAccessed < c[j].lastAccessed
                    \/ (c[i].lastAccessed = c[j].lastAccessed /\ i <= j)

\* SessionCache.evictOldest()
evictOldest(c, t) ==
    IF OldestIndex(c, t) = 0 THEN c ELSE Drop(c, {c[OldestIndex(c, t)].key})

\* this.sessions.set(userId, rec): a key the map holds keeps its place
Put(c, k, rec) ==
    IF HasSession(c, k)
    THEN [i \in 1..Len(c) |-> IF c[i].key = k THEN rec ELSE c[i]]
    ELSE Append(c, rec)

\* The map set(userId, session, initialHistory) leaves at time t
SetSessions(c, k, h, hist, t) ==
    Put(IF Len(c) >= sconfig.maxSessions THEN evictOldest(c, t) ELSE c, k,
        [key |-> k, session |-> h, history |-> hist, lastAccessed |-> t,
         createdAt |-> t, messageCount |-> Len(hist)])

\* A sweep that removes nothing
SweepNone(c, t) == c

\* The map cleanup() leaves at time t
Sweep(c, t) == SelectSeq(c, LAMBDA s : ~SessionExpired(s, t))

\* SessionCache.get(userId), and has(userId), which is get(userId) !== null
SessionLookup(name, k) ==
    /\ sessions' = GetSessions(sessions, k, now)
    /\ sret' = [NoSret EXCEPT !.op = name, !.key = k, !.at = now,
                              !.size = Len(sessions), !.age = Age(sessions, k, now),
                              !.found = (GetValue(sessions, k, now) # NoHandle),
                              !.result = GetValue(sessions, k, now)]
    /\ UNCHANGED <<sconfig, scTimer, scDue>>

SessionGet(k) == SessionLookup("get", k)

SessionHas(k) == SessionLookup("has", k)

\* SessionCache.getSessionData(userId): the record, of which result keeps the handle
getSessionData(k) == SessionLookup("getSessionData", k)

\* SessionCache.set(userId, session, initialHistory)
SessionSet(k, h, hist) ==
    /\ sessions' = SetSessions(sessions, k, h, hist, now)
    /\ sret' = [NoSret EXCEPT !.op = "set", !.key = k, !.at = now,
                              !.size = Len(sessions), !.age = Age(sessions, k, now),
                              !.found = HasSession(sessions, k), !.result = h]
    /\ UNCHANGED <<sconfig, scTimer, scDue>>

\* SessionCache.incrementMessageCount(userId)
incrementMessageCount(k) ==
    /\ HasSession(sessions, k) => SessionOf(sessions, k).messageCount <= MaxCount
    /\ sessions' = [i \in 1..Len(sessions) |->
                      IF sessions[i].key = k
                      THEN [sessions[i] EXCEPT !.messageCount = @ + 1,
                                               !.lastAccessed = now]
                      ELSE sessions[i]]
    /\ sret' = [NoSret EXCEPT !.op = "incrementMessageCount", !.key = k,
                              !.at = now, !.size = Len(sessions),
                              !.age = Age(sessions, k, now),
                              !.found = HasSession(sessions, k)]
    /\ UNCHANGED <<sconfig, scTimer, scDue>>

\* SessionCache.updateHistory(userId, history)
updateHistory(k, hist) ==
    /\ sessions' = [i \in 1..Len(sessions) |->
                      IF sessions[i].key = k
                      THEN [sessions[i] EXCEPT !.history = hist,
                                               !.lastAccessed = now]
                      ELSE sessions[i]]
    /\ sret' = [NoSret EXCEPT !.op = "updateHistory", !.key = k, !.at = now,
                              !.size = Len(sessions), !.age = Age(sessions, k, now),
                              !.found = HasSession(sessions, k)]
    /\ UNCHANGED <<sconfig, scTimer, scDue>>

\* SessionCache.delete(userId)
SessionDelete(k) ==
    /\ sessions' = Drop(sessions, {k})
    /\ sret' = [NoSret EXCEPT !.op = "delete", !.key = k, !.at = now,
                              !.size = Len(sessions), !.age = Age(sessions, k, now),
                              !.found = HasSession(sessions, k)]
    /\ UNCHANGED <<sconfig, scTimer, scDue>>

\* SessionCache.clear()
SessionClear ==
    /\ sessions' = <<>>
    /\ sret' = [NoSret EXCEPT !.op = "clear", !.at = now, !.size = Len(sessions)]
    /\ UNCHANGED <<sconfig, scTimer, scDue>>

\* The interval timer of startCleanupTask fires and runs cleanup()
SessionCleanup ==
    /\ scTimer = "set"
    /\ now >= scDue
    /\ sessions' = Sweep(sessions, now)
    /\ scDue' = now + sconfig.cleanupInterval
    /\ sret' = [NoSret EXCEPT !.op = "cleanup", !.at = now, !.size = Len(sessions)]
    /\ UNCHANGED <<sconfig, scTimer>>

\* SessionCache.dispose()
SessionDispose ==
    /\ scTimer = "set"
    /\ scTimer' = "null"
    /\ sret' = [NoSret EXCEPT !.op = "dispose", !.at = now, !.size = Len(sessions)]
    /\ UNCHANGED <<sconfig, sessions, scDue>>

\* getStats().activeSessions
activeSessions == Len(sessions)

(***************************************************************************)
(* History trimmer (src/lib/tokens, trimHistory of the route)              *)
(*                                                                         *)
(* A turn is [role, parts]; a part is the number of characters of its      *)
(* text, or NoText for a part that has no text field.                      *)
(***************************************************************************)

VARIABLES
    hin,          \* the value handed to trimHistory: whether an array, and its turns
    hout,         \* what trimHistory returned for it
    reqs          \* the POST requests in flight: position, body and response

CHARS_PER_TOKEN == 4
DEFAULT_MAX_TOKENS == 8000
MAX_HISTORY_MESSAGES == 20
SERVICE_MAX_HISTORY_MESSAGES == 30
MessageOverhead == 10
NoText == -1

\* The longest history handed to the trimmer
MaxTurns == 31

\* The longest history of arbitrary JSON values handed to the trimmer
MaxRawTurns == 3

\* An element of the history that is null (or any other falsy JSON value)
NullTurn == [falsy |-> TRUE]

\* An element of the history that has no parts array
NoPartsTurn == [role |-> "user"]

\* Math.ceil(text.length / CHARS_PER_TOKEN), 0 for the empty string
estimateTokens(chars) ==
    IF chars = 0 THEN 0 ELSE (chars + CHARS_PER_TOKEN - 1) \div CHARS_PER_TOKEN

RECURSIVE extractTextConcat(_)
\* The length of the texts put end to end, with nothing between them
extractTextConcat(parts) ==
    IF Len(parts) = 0 THEN 0
    ELSE (IF parts[1] = NoText THEN 0 ELSE parts[1]) + extractTextConcat(Tail(parts))

RECURSIVE extractText(_)
\* The length of parts.map(p => text of p, or "").join(" ")
extractText(parts) ==
    IF Len(parts) = 0 THEN 0
    ELSE (IF parts[1] = NoText THEN 0 ELSE parts[1])
         + (IF Len(parts) = 1 THEN 0 ELSE 1 + extractText(Tail(parts)))

\* estimateTokens(text) + 10 of one message
MessageTokens(msg) == estimateTokens(extractText(msg.parts)) + MessageOverhead

RECURSIVE TrimSkipLoop(_, _, _, _)
\* The loop with continue in the place of break
TrimSkipLoop(history, i, totalTokens, maxTokens) ==
    IF i < 1 THEN <<>>
    ELSE IF totalTokens + MessageTokens(history[i]) > maxTokens
         THEN TrimSkipLoop(history, i - 1, totalTokens, maxTokens)
         ELSE Append(TrimSkipLoop(history, i - 1,
                                  totalTokens + MessageTokens(history[i]), maxTokens),
                     history[i])

trimHistoryByTokensSkip(history, maxTokens) ==
    TrimSkipLoop(history, Len(history), 0, maxTokens)

RECURSIVE TrimThrows(_, _, _, _)
\* Whether the loop, at i with totalTokens taken, comes to a message that is
\* not skipped and has no parts array: extractText calls map of what is not an
\* array and a TypeError leaves trimHistoryByTokens
TrimThrows(history, i, totalTokens, maxTokens) ==
    IF i < 1 THEN FALSE
    ELSE IF "falsy" \in DOMAIN history[i]
         THEN TrimThrows(history, i - 1, totalTokens, maxTokens)
    ELSE IF "parts" \notin DOMAIN history[i] THEN TRUE
    ELSE IF totalTokens + MessageTokens(history[i]) > maxTokens THEN FALSE
         ELSE TrimThrows(history, i - 1,
                         totalTokens + MessageTokens(history[i]), maxTokens)

RECURSIVE TrimLoop(_, _, _, _)
\* for (i = history.length - 1; i >= 0; i--): the messages the loop keeps from
\* the one at i (counted from 1) down, with totalTokens already taken
TrimLoop(history, i, totalTokens, maxTokens) ==
    IF i < 1 THEN <<>>
    ELSE IF "falsy" \in DOMAIN history[i]
         THEN TrimLoop(history, i - 1, totalTokens, maxTokens)
    ELSE IF totalTokens + MessageTokens(history[i]) > maxTokens THEN <<>>
         ELSE Append(TrimLoop(history, i - 1,
                              totalTokens + MessageTokens(history[i]), maxTokens),
                     history[i])

trimHistoryByTokens(history, maxTokens) ==
    TrimLoop(history, Len(history), 0, maxTokens)

\* history.slice(1) in the place of history.slice(-n)
SliceFromOne(history, n) ==
    IF Len(history) = 0 THEN history ELSE Tail(history)

\* history.slice(-n)
SliceLast(history, n) ==
    IF Len(history) <= n THEN history
    ELSE SubSeq(history, Len(history) - n + 1, Len(history))

\* Whether trimHistory(h) throws, with CONFIG.MAX_HISTORY_MESSAGES = maxMessages
trimHistoryThrows(h, maxMessages) ==
    /\ h.isArray
    /\ LET trimmed == SliceLast(h.turns, maxMessages)
       IN  TrimThrows(trimmed, Len(trimmed), 0, DEFAULT_MAX_TOKENS)

\* trimHistory(history) with CONFIG.MAX_HISTORY_MESSAGES = maxMessages
trimHistoryWith(h, maxMessages) ==
    IF ~h.isArray THEN <<>>
    ELSE trimHistoryByTokens(SliceLast(h.turns, maxMessages), DEFAULT_MAX_TOKENS)

\* trimHistory of src/app/api/chat/route.ts
trimHistory(h) == trimHistoryWith(h, MAX_HISTORY_MESSAGES)

RECURSIVE TokensOf(_)
\* The sum of the estimates of the messages of a history
TokensOf(history) ==
    IF Len(history) = 0 THEN 0
    ELSE MessageTokens(history[1]) + TokensOf(Tail(history))

\* The parts of a long message: 4000 tokens, one more, and the same two made
\* of two parts
HeavyParts == {<<15960>>, <<15961>>, <<7980, 7979>>, <<15960, NoText>>}

\* How far from the end of a history its long messages are
HeavyOffsets == {0, 1, 2}

\* Turn i of a history of n turns whose long messages, of parts w, are at the
\* offsets P from its end
TurnAt(i, n, P, w) ==
    [role |-> IF i % 2 = 1 THEN "user" ELSE "model",
     parts |-> IF (n - i) \in P THEN w ELSE <<1 + (i % 8)>>]

HistoryOf(n, P, w) == [i \in 1..n |-> TurnAt(i, n, P, w)]

\* The values handed to trimHistory
TrimInputs ==
    {[isArray |-> TRUE, turns |-> HistoryOf(n, P, w)] :
        n \in 0..MaxTurns, P \in SUBSET HeavyOffsets, w \in HeavyParts}
    \cup {[isArray |-> FALSE, turns |-> <<>>]}

\* The elements of a history parsed from the JSON of a client: null, a turn
\* with no parts array, turns of no part, of a part with no text, of an empty
\* text, of two texts, and a turn of two texts of 4001 tokens
RawTurns ==
    {NullTurn, NoPartsTurn,
     [role |-> "user", parts |-> <<>>],
     [role |-> "user", parts |-> <<NoText>>],
     [role |-> "model", parts |-> <<0>>],
     [role |-> "user", parts |-> <<2, 2>>],
     [role |-> "model", parts |-> <<7980, 7980>>]}

\* The values of body.history: an array of such elements, or not an array
RawInputs ==
    {[isArray |-> TRUE, turns |-> t] :
        t \in UNION {[1..n -> RawTurns] : n \in 0..MaxRawTurns}}
    \cup {[isArray |-> FALSE, turns |-> <<>>]}

\* Nothing returned yet: whether trimHistory returned or threw, with what
\* limit, what it returned, and what it returned for its own result
NoOut ==
    [done |-> FALSE, maxMessages |-> 0, threw |-> FALSE, result |-> <<>>,
     again |-> FALSE, second |-> <<>>]

\* trimHistory(hin), by the route (20 messages) or the service (30)
Trim(maxMessages) ==
    /\ ~hout.done
    /\ hout' = [hout EXCEPT
                  !.done = TRUE, !.maxMessages = maxMessages,
                  !.threw = trimHistoryThrows(hin, maxMessages),
                  !.result = IF trimHistoryThrows(hin, maxMessages) THEN <<>>
                             ELSE trimHistoryWith(hin, maxMessages)]
    /\ UNCHANGED hin

\* trimHistory of what trimHistory returned, with the same limit
Retrim ==
    /\ hout.done /\ ~hout.threw /\ ~hout.again
    /\ hout' = [hout EXCEPT
                  !.again = TRUE,
                  !.second = trimHistoryWith([isArray |-> TRUE, turns |-> hout.result],
                                             hout.maxMessages)]
    /\ UNCHANGED hin

\* The histories a store is handed in set and updateHistory
StoreHistories == {<<>>, HistoryOf(1, {}, <<>>)}

(***************************************************************************)
(* POST /api/chat                                                          *)
(***************************************************************************)

\* The requests that can be in flight together
NumRequests == 2

Reqs == 1..NumRequests

\* body.userId after trim(), "" when missing or not a string
NoUser == 0

\* A request not yet received: where it is, its body, rateCheck.allowed, the
\* response, the chat it uses, whether it called startChat and with what history
NoReq ==
    [pc |-> "idle", userId |-> NoUser, history |-> <<>>, allowed |-> FALSE,
     status |-> 0, retryAfter |-> 0, chat |-> NoHandle, created |-> FALSE,
     started |-> <<>>, at |-> 0]

chatState == <<scState, hin, hout, reqs>>

vars == <<now, ticks, rlState, lruState, chatState>>

\* Nothing handed to the trimmer
TrimIdle == hin = [isArray |-> TRUE, turns |-> <<>>] /\ hout = NoOut

\* No request received
ReqIdle == reqs = [r \in Reqs |-> NoReq]

\* No session store, trimmer or request in use
ChatIdle == SessionInitWith({DEFAULT_CONFIG}, StartTime) /\ TrimIdle /\ ReqIdle

(***************************************************************************)
(* LRUCache                                                                *)
(***************************************************************************)

CacheKeys == 1..NumCacheKeys

Values == {1, 2}

\* The options the cache is constructed with
CacheOptions ==
    [maxSize : {1, 2}, ttl : {0, 1000}, onEvict : BOOLEAN]

NoLret ==
    [op |-> "none", key |-> 0, value |-> 0, at |-> 0, before |-> <<>>,
     found |-> FALSE, result |-> 0]

\* new LRUCache(o)
LRUInitWith(os) ==
    /\ options \in os
    /\ cache = <<>>
    /\ evicted = <<>>
    /\ lret = NoLret

\* No cache in use
LRUIdle == LRUInitWith({[maxSize |-> 1, ttl |-> 0, onEvict |-> FALSE]})

\* this.cache.has(key)
HasKey(c, k) == \E i \in 1..Len(c) : c[i].key = k

\* this.cache.get(key), for a key the map holds
EntryOf(c, k) == c[CHOOSE i \in 1..Len(c) : c[i].key = k]

\* this.cache.delete(key)
Without(c, k) == SelectSeq(c, LAMBDA e : e.key # k)

\* Expired with the boundary on the other side
ExpiredGe(e, t) == options.ttl # 0 /\ t - e.timestamp >= options.ttl

\* this.ttl && now - entry.timestamp > this.ttl
Expired(e, t) == options.ttl # 0 /\ t - e.timestamp > options.ttl

\* EvictCalls with the callback made for the first removed entry only
EvictCallsFirst(es) ==
    IF options.onEvict /\ Len(es) > 0
    THEN <<[key |-> es[1].key, value |-> es[1].value]>>
    ELSE <<>>

\* The onEvict calls made for the entries es, in order
EvictCalls(es) ==
    IF options.onEvict
    THEN [i \in 1..Len(es) |-> [key |-> es[i].key, value |-> es[i].value]]
    ELSE <<>>

\* AtCapacity off by one
AtCapacityGt(c) == Len(c) > options.maxSize

\* this.cache.size >= this.maxSize
AtCapacity(c) == Len(c) >= options.maxSize

\* The entries set(k, v) removes by eviction
SetEvicts(c, k) ==
    IF ~HasKey(c, k) /\ AtCapacity(c) /\ Len(c) > 0 THEN <<Head(c)>> ELSE <<>>

\* SetResult with the eviction at capacity made for a stored key too
SetResultEvicting(c, k, v, t) ==
    LET e == [key |-> k, value |-> v, timestamp |-> t]
    IN  IF AtCapacity(c) /\ Len(c) > 0 THEN Append(Without(Tail(c), k), e)
        ELSE Append(Without(c, k), e)

\* The map set(k, v) leaves
SetResult(c, k, v, t) ==
    LET e == [key |-> k, value |-> v, timestamp |-> t]
    IN  IF HasKey(c, k) THEN Append(Without(c, k), e)
        ELSE IF AtCapacity(c) /\ Len(c) > 0 THEN Append(Tail(c), e)
        ELSE Append(c, e)

\* A lookup that refreshes the timestamp but leaves the entry where it is
LookupNoTouch(name, k) ==
    /\ IF ~HasKey(cache, k)
       THEN /\ UNCHANGED cache
            /\ evicted' = <<>>
            /\ lret' = [NoLret EXCEPT !.op = name, !.key = k, !.at = now,
                                      !.before = cache]
       ELSE LET e == EntryOf(cache, k)
            IN  IF Expired(e, now)
                THEN /\ cache' = Without(cache, k)
                     /\ evicted' = EvictCalls(<<e>>)
                     /\ lret' = [NoLret EXCEPT !.op = name, !.key = k, !.at = now,
                                               !.before = cache]
                ELSE /\ cache' = [i \in 1..Len(cache) |->
                                    IF cache[i].key = k
                                    THEN [cache[i] EXCEPT !.timestamp = now]
                                    ELSE cache[i]]
                     /\ evicted' = <<>>
                     /\ lret' = [NoLret EXCEPT !.op = name, !.key = k, !.at = now,
                                               !.before = cache, !.found = TRUE,
                                               !.result = e.value]
    /\ UNCHANGED options

\* LRUCache.get(key) and LRUCache.has(key), which is get(key) !== undefined
Lookup(name, k) ==
    /\ IF ~HasKey(cache, k)
       THEN /\ UNCHANGED cache
            /\ evicted' = <<>>
            /\ lret' = [NoLret EXCEPT !.op = name, !.key = k, !.at = now,
                                      !.before = cache]
       ELSE LET e == EntryOf(cache, k)
            IN  IF Expired(e, now)
                THEN /\ cache' = Without(cache, k)
                     /\ evicted' = EvictCalls(<<e>>)
                     /\ lret' = [NoLret EXCEPT !.op = name, !.key = k, !.at = now,
                                               !.before = cache]
                ELSE /\ cache' = Append(Without(cache, k), [e EXCEPT !.timestamp = now])
                     /\ evicted' = <<>>
                     /\ lret' = [NoLret EXCEPT !.op = name, !.key = k, !.at = now,
                                               !.before = cache, !.found = TRUE,
                                               !.result = e.value]
    /\ UNCHANGED options

LGet(k) == Lookup("get", k)

LHas(k) == Lookup("has", k)

\* LRUCache.set(key, value)
LSet(k, v) ==
    /\ cache' = SetResult(cache, k, v, now)
    /\ evicted' = EvictCalls(SetEvicts(cache, k))
    /\ lret' = [NoLret EXCEPT !.op = "set", !.key = k, !.value = v, !.at = now,
                              !.before = cache, !.found = HasKey(cache, k)]
    /\ UNCHANGED options

\* LRUCache.delete(key)
LDelete(k) ==
    /\ cache' = Without(cache, k)
    /\ evicted' = IF HasKey(cache, k) THEN EvictCalls(<<EntryOf(cache, k)>>) ELSE <<>>
    /\ lret' = [NoLret EXCEPT !.op = "delete", !.key = k, !.at = now,
                              !.before = cache, !.found = HasKey(cache, k)]
    /\ UNCHANGED options

\* LRUCache.clear()
LClear ==
    /\ cache' = <<>>
    /\ evicted' = EvictCalls(cache)
    /\ lret' = [NoLret EXCEPT !.op = "clear", !.at = now, !.before = cache]
    /\ UNCHANGED options

\* LRUCache.prune()
LPrune ==
    LET gone == SelectSeq(cache, LAMBDA e : Expired(e, now))
    IN  /\ cache' = SelectSeq(cache, LAMBDA e : ~Expired(e, now))
        /\ evicted' = EvictCalls(gone)
        /\ lret' = [NoLret EXCEPT !.op = "prune", !.at = now, !.before = cache,
                                  !.result = Len(gone)]
        /\ UNCHANGED options

\* Time passes between two cache operations
LTick(d) ==
    /\ d \in CacheSteps
    /\ ticks < MaxCacheTicks
    /\ ticks' = ticks + 1
    /\ now' = now + d
    /\ evicted' = <<>>
    /\ lret' = [NoLret EXCEPT !.op = "tick", !.at = now + d]
    /\ UNCHANGED <<options, cache>>

LRUNext ==
    \/ \E k \in CacheKeys : LGet(k) /\ UNCHANGED <<now, ticks, rlState, chatState>>
    \/ \E k \in CacheKeys, v \in Values : LSet(k, v) /\ UNCHANGED <<now, ticks, rlState, chatState>>
    \/ \E k \in CacheKeys : LHas(k) /\ UNCHANGED <<now, ticks, rlState, chatState>>
    \/ \E k \in CacheKeys : LDelete(k) /\ UNCHANGED <<now, ticks, rlState, chatState>>
    \/ LClear /\ UNCHANGED <<now, ticks, rlState, chatState>>
    \/ LPrune /\ UNCHANGED <<now, ticks, rlState, chatState>>
    \/ \E d \in CacheSteps : LTick(d) /\ UNCHANGED <<rlState, chatState>>

\* LRUCache.size
size == Len(cache)

KeysOf(c) == {c[i].key : i \in 1..Len(c)}

\* LRUCache.entries() at time t: the [key, value] pairs it yields, in order
Entries(c, t) ==
    LET live == SelectSeq(c, LAMBDA e : ~(options.ttl # 0 /\ t - e.timestamp > options.ttl))
    IN  [i \in 1..Len(live) |-> [key |-> live[i].key, value |-> live[i].value]]

(***************************************************************************)
(* RateLimiter                                                             *)
(***************************************************************************)

\* The configurations the limiter is constructed with: maxTokens in whole
\* tokens, refillRate in units of 1/Scale token per millisecond (1 is
\* 0.001 token per second, 1000 is 1 token per second), cleanupInterval in ms.
Configs ==
    { [maxTokens |-> 2, refillRate |-> 1, cleanupInterval |-> 60000],
      [maxTokens |-> 1, refillRate |-> 1000, cleanupInterval |-> 60000] }

\* How far the clock moves between two calls
Steps == {400, 600, 300001}

Has(k) == k \in DOMAIN buckets

MapDelete(m, ks) == [x \in (DOMAIN m) \ ks |-> m[x]]

MapSet(m, k, v) == [x \in (DOMAIN m) \cup {k} |-> IF x = k THEN v ELSE m[x]]

NoEntry == [tokens |-> 0, lastRefill |-> 0, lastRequest |-> 0]

NoRet ==
    [op |-> "none", key |-> 0, at |-> 0, existed |-> FALSE, before |-> NoEntry,
     allowed |-> FALSE, remaining |-> 0, hasRetry |-> FALSE, retryAfter |-> 0]

NoRun == [len |-> 0, start |-> 0]

\* NewEntry with the first request not charged
NewEntryFull(t) ==
    [tokens |-> config.maxTokens * Scale, lastRefill |-> t, lastRequest |-> t]

\* entry = { tokens: maxTokens - 1, lastRefill: now, lastRequest: now }
NewEntry(t) ==
    [tokens |-> config.maxTokens * Scale - Scale, lastRefill |-> t, lastRequest |-> t]

\* Refill without the cap at maxTokens
RefillNoCap(entry, t) ==
    entry.tokens + (t - entry.lastRefill) * config.refillRate

\* Refill with the elapsed milliseconds taken for seconds: a thousand times the
\* tokens (the amount is capped at a thousand tokens, beyond any maxTokens)
RefillMs(entry, t) ==
    Min(config.maxTokens * Scale,
        entry.tokens + Min(Scale, (t - entry.lastRefill) * config.refillRate) * 1000)

\* Math.min(maxTokens, entry.tokens + timePassed * refillRate)
Refill(entry, t) ==
    Min(config.maxTokens * Scale,
        entry.tokens + (t - entry.lastRefill) * config.refillRate)

\* BurstBlocked with the elapsed milliseconds compared as seconds
BurstBlockedSec(entry, t) ==
    entry.lastRequest # 0 /\ (t - entry.lastRequest) * 1000 < MIN_REQUEST_INTERVAL

\* entry.lastRequest && (now - entry.lastRequest) < MIN_REQUEST_INTERVAL
BurstBlocked(entry, t) ==
    entry.lastRequest # 0 /\ (t - entry.lastRequest) < MIN_REQUEST_INTERVAL

\* RetryAfter rounded down
RetryAfterFloor(tokens) == (Scale - tokens) \div (config.refillRate * 1000)

\* Math.ceil((1 - entry.tokens) / refillRate), in seconds
RetryAfter(tokens) == CeilDiv(Scale - tokens, config.refillRate * 1000)

\* CheckOutcome with lastRefill left as it was
CheckOutcomeStale(k) ==
    IF ~Has(k)
    THEN [entry |-> NewEntry(now), allowed |-> TRUE,
          remaining |-> WholeTokens(NewEntry(now).tokens),
          hasRetry |-> FALSE, retryAfter |-> 0]
    ELSE LET e == buckets[k]
             refilled == Refill(e, now)
             e1 == [e EXCEPT !.tokens = refilled]
         IN  IF BurstBlocked(e1, now)
             THEN [entry |-> e1, allowed |-> FALSE, remaining |-> Floor(refilled),
                   hasRetry |-> TRUE, retryAfter |-> 1]
             ELSE IF refilled >= Scale
             THEN [entry |-> [e1 EXCEPT !.tokens = refilled - Scale, !.lastRequest = now],
                   allowed |-> TRUE, remaining |-> Floor(refilled - Scale),
                   hasRetry |-> FALSE, retryAfter |-> 0]
             ELSE [entry |-> e1, allowed |-> FALSE, remaining |-> 0,
                   hasRetry |-> TRUE, retryAfter |-> RetryAfter(refilled)]

\* CheckOutcome with a check refused for coming too soon recorded as the
\* last request
CheckOutcomeMarked(k) ==
    IF ~Has(k)
    THEN [entry |-> NewEntry(now), allowed |-> TRUE,
          remaining |-> WholeTokens(NewEntry(now).tokens),
          hasRetry |-> FALSE, retryAfter |-> 0]
    ELSE LET e == buckets[k]
             refilled == Refill(e, now)
             e1 == [e EXCEPT !.tokens = refilled, !.lastRefill = now]
         IN  IF BurstBlocked(e1, now)
             THEN [entry |-> [e1 EXCEPT !.lastRequest = now], allowed |-> FALSE,
                   remaining |-> Floor(refilled),
                   hasRetry |-> TRUE, retryAfter |-> 1]
             ELSE IF refilled >= Scale
             THEN [entry |-> [e1 EXCEPT !.tokens = refilled - Scale, !.lastRequest = now],
                   allowed |-> TRUE, remaining |-> Floor(refilled - Scale),
                   hasRetry |-> FALSE, retryAfter |-> 0]
             ELSE [entry |-> e1, allowed |-> FALSE, remaining |-> 0,
                   hasRetry |-> TRUE, retryAfter |-> RetryAfter(refilled)]

\* What check(k) returns and the entry it leaves, from the state alone
CheckOutcome(k) ==
    IF ~Has(k)
    THEN [entry |-> NewEntry(now), allowed |-> TRUE,
          remaining |-> WholeTokens(NewEntry(now).tokens),
          hasRetry |-> FALSE, retryAfter |-> 0]
    ELSE LET e == buckets[k]
             refilled == Refill(e, now)
             e1 == [e EXCEPT !.tokens = refilled, !.lastRefill = now]
         IN  IF BurstBlocked(e1, now)
             THEN [entry |-> e1, allowed |-> FALSE, remaining |-> Floor(refilled),
                   hasRetry |-> TRUE, retryAfter |-> 1]
             ELSE IF refilled >= Scale
             THEN [entry |-> [e1 EXCEPT !.tokens = refilled - Scale, !.lastRequest = now],
                   allowed |-> TRUE, remaining |-> Floor(refilled - Scale),
                   hasRetry |-> FALSE, retryAfter |-> 0]
             ELSE [entry |-> e1, allowed |-> FALSE, remaining |-> 0,
                   hasRetry |-> TRUE, retryAfter |-> RetryAfter(refilled)]

\* The admitted checks of a key, the most recent maxTokens + 1 of them
Remember(hist, rec) ==
    LET h == Append(hist, rec)
    IN  IF Len(h) > config.maxTokens + 1 THEN Tail(h) ELSE h

\* The run of checks of a key since its bucket was created, while every check
\* comes at least MIN_REQUEST_INTERVAL after the one before and the whole run
\* is too short to refill one token
NextRun(k) ==
    IF ~Has(k) THEN [len |-> 1, start |-> now]
    ELSE IF /\ run[k].len > 0
            /\ run[k].len <= config.maxTokens
            /\ now - buckets[k].lastRefill >= MIN_REQUEST_INTERVAL
            /\ (now - run[k].start) * config.refillRate < Scale
         THEN [run[k] EXCEPT !.len = @ + 1]
         ELSE NoRun

\* new RateLimiter(c)
RLInitWith(cs) ==
    /\ now = StartTime
    /\ ticks = 0
    /\ config \in cs
    /\ buckets = <<>>
    /\ cleanupTimer = "set"
    /\ cleanupDue = StartTime + config.cleanupInterval
    /\ ret = NoRet
    /\ allowedAt = [k \in Keys |-> <<>>]
    /\ run = [k \in Keys |-> NoRun]

RLInit == RLInitWith(Configs) /\ LRUIdle /\ ChatIdle

\* RateLimiter.check(key): the bucket it leaves and the result it returns
CheckCall(k) ==
    LET out == CheckOutcome(k)
    IN  /\ buckets' = MapSet(buckets, k, out.entry)
        /\ ret' = [op |-> "check", key |-> k, at |-> now, existed |-> Has(k),
                   before |-> IF Has(k) THEN buckets[k] ELSE NoEntry,
                   allowed |-> out.allowed, remaining |-> out.remaining,
                   hasRetry |-> out.hasRetry, retryAfter |-> out.retryAfter]
        /\ UNCHANGED <<now, ticks, config, cleanupTimer, cleanupDue>>

Check(k) == CheckCall(k) /\ UNCHANGED <<allowedAt, run>>

\* check(key) with the history of the key's admitted checks and runs recorded
TracedCheck(k) ==
    /\ CheckCall(k)
    /\ allowedAt' = IF CheckOutcome(k).allowed
                    THEN [allowedAt EXCEPT
                            ![k] = Remember(@, [t |-> now, fresh |-> ~Has(k)])]
                    ELSE allowedAt
    /\ run' = [run EXCEPT ![k] = NextRun(k)]

\* reset(key) clearing the whole map
ResetAll(k) ==
    /\ buckets' = <<>>
    /\ ret' = [NoRet EXCEPT !.op = "reset", !.key = k, !.at = now, !.existed = Has(k)]
    /\ run' = [j \in Keys |-> NoRun]
    /\ UNCHANGED <<now, ticks, config, cleanupTimer, cleanupDue, allowedAt>>

\* RateLimiter.reset(key)
Reset(k) ==
    /\ buckets' = MapDelete(buckets, {k})
    /\ ret' = [NoRet EXCEPT !.op = "reset", !.key = k, !.at = now, !.existed = Has(k)]
    /\ run' = [run EXCEPT ![k] = NoRun]
    /\ UNCHANGED <<now, ticks, config, cleanupTimer, cleanupDue, allowedAt>>

\* Stale with the threshold taken for the cleanup interval
StaleAtInterval(t) ==
    {k \in DOMAIN buckets : t - buckets[k].lastRefill > config.cleanupInterval}

\* The keys cleanup() deletes: now - entry.lastRefill > staleThreshold
Stale(t) == {k \in DOMAIN buckets : t - buckets[k].lastRefill > staleThreshold}

\* The interval timer fires: RateLimiter.cleanup()
Cleanup ==
    /\ cleanupTimer = "set"
    /\ now >= cleanupDue
    /\ buckets' = MapDelete(buckets, Stale(now))
    /\ cleanupDue' = now + config.cleanupInterval
    /\ ret' = [NoRet EXCEPT !.op = "cleanup", !.at = now]
    /\ run' = [k \in Keys |-> IF k \in Stale(now) THEN NoRun ELSE run[k]]
    /\ UNCHANGED <<now, ticks, config, cleanupTimer, allowedAt>>

\* RateLimiter.dispose()
Dispose ==
    /\ cleanupTimer = "set"
    /\ cleanupTimer' = "null"
    /\ ret' = [NoRet EXCEPT !.op = "dispose", !.at = now]
    /\ UNCHANGED <<now, ticks, config, buckets, cleanupDue, allowedAt, run>>

\* Date.now() moves by d between two calls, at most limit times
Advance(d, limit) ==
    /\ ticks < limit
    /\ now + d >= 1
    /\ ticks' = ticks + 1
    /\ now' = now + d
    /\ ret' = [NoRet EXCEPT !.op = "tick", !.at = now + d]
    /\ UNCHANGED <<config, buckets, cleanupTimer, cleanupDue, allowedAt, run>>

\* Time passes between two calls
Tick(d) == d \in Steps /\ Advance(d, MaxTicks)

RLNext ==
    \/ \E k \in Keys : Check(k) /\ UNCHANGED <<lruState, chatState>>
    \/ \E k \in Keys : Reset(k) /\ UNCHANGED <<lruState, chatState>>
    \/ Cleanup /\ UNCHANGED <<lruState, chatState>>
    \/ \E d \in Steps : Tick(d) /\ UNCHANGED <<lruState, chatState>>

Spec == RLInit /\ [][RLNext]_vars

\* One caller, with the history of its checks recorded
TraceNext ==
    \/ TracedCheck(1) /\ UNCHANGED <<lruState, chatState>>
    \/ Reset(1) /\ UNCHANGED <<lruState, chatState>>
    \/ Cleanup /\ UNCHANGED <<lruState, chatState>>
    \/ Dispose /\ UNCHANGED <<lruState, chatState>>
    \/ \E d \in Steps : Tick(d) /\ UNCHANGED <<lruState, chatState>>

SpecTrace == RLInit /\ [][TraceNext]_vars

\* A check of a key is made only MIN_REQUEST_INTERVAL or more after the last one
SpacedCheck(k) ==
    /\ Has(k) => now - buckets[k].lastRefill >= MIN_REQUEST_INTERVAL
    /\ TracedCheck(k)

\* One caller whose checks are spaced, and the cleanup sweep in the background
SweepNext ==
    \/ SpacedCheck(1) /\ UNCHANGED <<lruState, chatState>>
    \/ Cleanup /\ UNCHANGED <<lruState, chatState>>
    \/ \E d \in Steps : Tick(d) /\ UNCHANGED <<lruState, chatState>>

SpecSweep == RLInit /\ [][SweepNext]_vars

\* The limiter of the refill test: maxTokens 10, refillRate 1 per second
RefillConfigs == { [maxTokens |-> 10, refillRate |-> 1000, cleanupInterval |-> 60000] }

RefillSteps == {600, 5000}

RefillNext ==
    \/ TracedCheck(1) /\ UNCHANGED <<lruState, chatState>>
    \/ \E d \in RefillSteps : Advance(d, MaxRefillTicks) /\ UNCHANGED <<lruState, chatState>>

RefillInit == RLInitWith(RefillConfigs) /\ LRUIdle /\ ChatIdle

SpecRefill == RefillInit /\ [][RefillNext]_vars

\* A host clock that is set back between two calls
BackSteps == {-400, -600}

SkewNext ==
    \/ \E k \in Keys : Check(k) /\ UNCHANGED <<lruState, chatState>>
    \/ \E d \in Steps : Tick(d) /\ UNCHANGED <<lruState, chatState>>
    \/ \E d \in BackSteps : Advance(d, MaxTicks) /\ UNCHANGED <<lruState, chatState>>

SpecSkew == RLInit /\ [][SkewNext]_vars

\* How far the clock moves between two calls of a caller that comes back
\* after five minutes, or just after
ReclaimSteps == {300000, 300001}

\* The limiter while checks come in, and after they have stopped: the clock
\* goes on while buckets are stored and the sweep is scheduled, and then the
\* timer fires before the clock moves past the time it is due
ReclaimTick(d) ==
    /\ d \in ReclaimSteps
    /\ ticks < MaxTicks \/ (buckets # <<>> /\ cleanupTimer = "set" /\ now < cleanupDue)
    /\ ticks' = ticks + 1
    /\ now' = now + d
    /\ ret' = [NoRet EXCEPT !.op = "tick", !.at = now + d]
    /\ UNCHANGED <<config, buckets, cleanupTimer, cleanupDue, allowedAt, run>>

ReclaimTicking == \E d \in ReclaimSteps : ReclaimTick(d) /\ UNCHANGED <<lruState, chatState>>

Reclaiming == Cleanup /\ UNCHANGED <<lruState, chatState>>

ReclaimNext ==
    \/ \E k \in Keys :
          ticks <= MaxTicks /\ TracedCheck(k) /\ UNCHANGED <<lruState, chatState>>
    \/ Reclaiming
    \/ Dispose /\ UNCHANGED <<lruState, chatState>>
    \/ ReclaimTicking

\* The interval timer fires when it is due, and time does not stop
SpecReclaim ==
    RLInit /\ [][ReclaimNext]_vars /\ WF_vars(Reclaiming) /\ WF_vars(ReclaimTicking)

\* No limiter in use: the default configuration, never called
RLIdle == RLInitWith({[maxTokens |-> 10, refillRate |-> 167, cleanupInterval |-> 60000]})

LRUInit == RLIdle /\ LRUInitWith(CacheOptions) /\ ChatIdle

SpecLRU == LRUInit /\ [][LRUNext]_vars

(***************************************************************************)
(* Specifications of the SessionCache                                      *)
(***************************************************************************)

beside == <<rlState, lruState, hin, hout, reqs>>

\* Time passes between two session store operations
SessionTick(d) ==
    /\ d \in SessionSteps
    /\ ticks < MaxSessionTicks
    /\ ticks' = ticks + 1
    /\ now' = now + d
    /\ sret' = [NoSret EXCEPT !.op = "tick", !.at = now + d]
    /\ UNCHANGED <<sconfig, sessions, scTimer, scDue>>

SessionInit ==
    RLIdle /\ LRUIdle /\ SessionInitWith(SessionConfigs, StartTime) /\ TrimIdle /\ ReqIdle

SessionNext ==
    \/ \E k \in Keys : SessionGet(k) /\ UNCHANGED <<now, ticks, beside>>
    \/ \E k \in Keys : getSessionData(k) /\ UNCHANGED <<now, ticks, beside>>
    \/ \E k \in Keys : SessionHas(k) /\ UNCHANGED <<now, ticks, beside>>
    \/ \E k \in Keys, h \in Handles :
          SessionSet(k, h, <<>>) /\ UNCHANGED <<now, ticks, beside>>
    \/ \E k \in Keys : SessionDelete(k) /\ UNCHANGED <<now, ticks, beside>>
    \/ SessionClear /\ UNCHANGED <<now, ticks, beside>>
    \/ SessionCleanup /\ UNCHANGED <<now, ticks, beside>>
    \/ SessionDispose /\ UNCHANGED <<now, ticks, beside>>
    \/ \E d \in SessionSteps : SessionTick(d) /\ UNCHANGED beside

SpecSession == SessionInit /\ [][SessionNext]_vars

\* The store as the chat handlers use it for one conversation after another:
\* sessions are stored, read, and updated after every exchange
SessionEditNext ==
    \/ \E k \in Keys : SessionGet(k) /\ UNCHANGED <<now, ticks, beside>>
    \/ \E k \in Keys : getSessionData(k) /\ UNCHANGED <<now, ticks, beside>>
    \/ \E k \in Keys : SessionHas(k) /\ UNCHANGED <<now, ticks, beside>>
    \/ \E k \in Keys : SessionSet(k, 1, <<>>) /\ UNCHANGED <<now, ticks, beside>>
    \/ \E k \in Keys : incrementMessageCount(k) /\ UNCHANGED <<now, ticks, beside>>
    \/ \E k \in Keys, hist \in StoreHistories :
          updateHistory(k, hist) /\ UNCHANGED <<now, ticks, beside>>
    \/ \E d \in SessionSteps : SessionTick(d) /\ UNCHANGED beside

SpecSessionEdit == SessionInit /\ [][SessionEditNext]_vars

\* The store while requests come in, and after they have stopped: the clock
\* goes on while sessions are stored and the sweep is scheduled, and then the
\* timer fires before the clock moves past the time it is due
SweepTick(d) ==
    /\ d \in SessionSteps
    /\ ticks < MaxSessionTicks \/ (sessions # <<>> /\ scTimer = "set" /\ now < scDue)
    /\ ticks' = ticks + 1
    /\ now' = now + d
    /\ sret' = [NoSret EXCEPT !.op = "tick", !.at = now + d]
    /\ UNCHANGED <<sconfig, sessions, scTimer, scDue>>

Ticking == \E d \in SessionSteps : SweepTick(d) /\ UNCHANGED beside

Sweeping == SessionCleanup /\ UNCHANGED <<now, ticks, beside>>

SessionSweepNext ==
    \/ \E k \in Keys :
          ticks <= MaxSessionTicks /\ SessionGet(k) /\ UNCHANGED <<now, ticks, beside>>
    \/ \E k \in Keys :
          /\ ticks <= MaxSessionTicks
          /\ SessionSet(k, 1, <<>>) /\ UNCHANGED <<now, ticks, beside>>
    \/ Sweeping
    \/ SessionDispose /\ UNCHANGED <<now, ticks, beside>>
    \/ Ticking

\* The interval timer fires when it is due, and time does not stop
SpecSessionSweep ==
    SessionInit /\ [][SessionSweepNext]_vars /\ WF_vars(Sweeping) /\ WF_vars(Ticking)

(***************************************************************************)
(* Specification of the history trimmer                                    *)
(***************************************************************************)

TrimInit ==
    /\ RLIdle /\ LRUIdle /\ SessionInitWith({DEFAULT_CONFIG}, StartTime) /\ ReqIdle
    /\ hin \in TrimInputs
    /\ hout = NoOut

TrimNext ==
    \/ /\ Trim(MAX_HISTORY_MESSAGES)
       /\ UNCHANGED <<now, ticks, rlState, lruState, scState, reqs>>
    \/ /\ Trim(SERVICE_MAX_HISTORY_MESSAGES)
       /\ UNCHANGED <<now, ticks, rlState, lruState, scState, reqs>>
    \/ /\ Retrim
       /\ UNCHANGED <<now, ticks, rlState, lruState, scState, reqs>>

SpecTrim == TrimInit /\ [][TrimNext]_vars

\* The trimmer handed whatever JSON the client sent as history
TrimRawInit ==
    /\ RLIdle /\ LRUIdle /\ SessionInitWith({DEFAULT_CONFIG}, StartTime) /\ ReqIdle
    /\ hin \in RawInputs
    /\ hout = NoOut

SpecTrimRaw == TrimRawInit /\ [][TrimNext]_vars

(***************************************************************************)
(* POST /api/chat: the handler runs from the parsed body to the call of    *)
(* the model without giving up control, so that part is one step           *)
(***************************************************************************)

\* The history arrays a client sends: none, one turn more than
\* MAX_HISTORY_MESSAGES, three turns of 4000 tokens each
ClientHistories ==
    {<<>>, HistoryOf(MAX_HISTORY_MESSAGES + 1, {}, <<>>), HistoryOf(3, {0, 1, 2}, <<15960>>)}

\* The bodies request.json() resolves to
Bodies ==
    {[userId |-> NoUser, history |-> <<>>]}
    \cup [userId : Keys, history : ClientHistories]

\* The limiter the handler uses: the default one, and one with a single token
PipelineConfigs ==
    {[maxTokens |-> 10, refillRate |-> 167, cleanupInterval |-> 60000],
     [maxTokens |-> 1, refillRate |-> 1, cleanupInterval |-> 60000]}

PipelineSteps == {600, 1800001}

\* await request.json()
Receive(r, body) ==
    /\ reqs[r].pc = "idle"
    /\ reqs' = [reqs EXCEPT ![r] = [NoReq EXCEPT !.pc = "parsed",
                                                !.userId = body.userId,
                                                !.history = body.history]]

\* A gate that lets every request in
AdmittedAlways(out) == TRUE

\* !(!rateCheck.allowed)
Admitted(out) == out.allowed

\* rateCheck.retryAfter || 1
RetryHint(out) ==
    IF out.hasRetry /\ out.retryAfter # 0 THEN out.retryAfter ELSE 1

\* A handler that starts a chat whatever the store returned
NoChatAlways(chat) == TRUE

\* !chat
NoChat(chat) == chat = NoHandle

\* POST from the parsed body on: validation, rate limiting, then streamResponse
\* or sendMessage up to the call of the model
Handle(r) ==
    LET k == reqs[r].userId
        out == CheckOutcome(k)
        chat == GetValue(sessions, k, now)
        looked == GetSessions(sessions, k, now)
    IN  /\ reqs[r].pc = "parsed"
        /\ IF k = NoUser
           THEN /\ reqs' = [reqs EXCEPT ![r].pc = "done", ![r].status = 400,
                                        ![r].at = now]
                /\ UNCHANGED <<now, ticks, rlState, scState>>
           ELSE /\ Check(k)
                /\ IF ~Admitted(out)
                   THEN /\ reqs' = [reqs EXCEPT ![r].pc = "done", ![r].status = 429,
                                                ![r].retryAfter = RetryHint(out),
                                                ![r].at = now]
                        /\ UNCHANGED scState
                   ELSE /\ reqs' = [reqs EXCEPT
                                ![r].pc = "upstream", ![r].allowed = TRUE,
                                ![r].chat = IF NoChat(chat) THEN r ELSE chat,
                                ![r].created = NoChat(chat),
                                ![r].started =
                                    IF NoChat(chat)
                                    THEN trimHistory([isArray |-> TRUE,
                                                      turns |-> reqs[r].history])
                                    ELSE <<>>,
                                ![r].at = now]
                        /\ sessions' =
                              IF NoChat(chat)
                              THEN SetSessions(looked, k, r, reqs[r].history, now)
                              ELSE looked
                        /\ sret' = [NoSret EXCEPT
                                !.op = IF NoChat(chat) THEN "set" ELSE "get",
                                !.key = k, !.at = now,
                                !.size = IF NoChat(chat) THEN Len(looked)
                                         ELSE Len(sessions),
                                !.age = IF NoChat(chat) THEN Age(looked, k, now)
                                        ELSE Age(sessions, k, now),
                                !.found = IF NoChat(chat) THEN HasSession(looked, k)
                                          ELSE TRUE,
                                !.result = IF NoChat(chat) THEN r ELSE chat]
                        /\ UNCHANGED <<sconfig, scTimer, scDue>>

\* chat.sendMessage / sendMessageStream resolves and the response is sent
Complete(r) ==
    /\ reqs[r].pc = "upstream"
    /\ reqs' = [reqs EXCEPT ![r].pc = "done", ![r].status = 200]

PipelineInit ==
    /\ RLInitWith(PipelineConfigs) /\ LRUIdle
    /\ SessionInitWith({DEFAULT_CONFIG}, StartTime) /\ TrimIdle /\ ReqIdle

PipelineNext ==
    \/ \E r \in Reqs, body \in Bodies :
          /\ Receive(r, body)
          /\ UNCHANGED <<now, ticks, rlState, lruState, scState, hin, hout>>
    \/ \E r \in Reqs : Handle(r) /\ UNCHANGED <<lruState, hin, hout>>
    \/ \E r \in Reqs :
          /\ Complete(r)
          /\ UNCHANGED <<now, ticks, rlState, lruState, scState, hin, hout>>
    \/ Cleanup /\ UNCHANGED <<lruState, chatState>>
    \/ SessionCleanup /\ UNCHANGED <<now, ticks, beside>>
    \/ \E d \in PipelineSteps : Advance(d, MaxTicks) /\ UNCHANGED <<lruState, chatState>>

SpecPipeline == PipelineInit /\ [][PipelineNext]_vars

(***************************************************************************)
(* A caller that does what the refusal says: it waits retryAfter seconds   *)
(* and asks again                                                          *)
(***************************************************************************)

\* The caller refused last waits for the retryAfter seconds it was given
RetryWait ==
    /\ ret.op = "check" /\ ~ret.allowed /\ ret.hasRetry
    /\ Advance(ret.retryAfter * 1000, MaxTicks)

RetryInit == RLInitWith(PipelineConfigs) /\ LRUIdle /\ ChatIdle

RetryNext ==
    \/ \E k \in Keys : Check(k) /\ UNCHANGED <<lruState, chatState>>
    \/ RetryWait /\ UNCHANGED <<lruState, chatState>>
    \/ \E d \in Steps : Tick(d) /\ UNCHANGED <<lruState, chatState>>

SpecRetry == RetryInit /\ [][RetryNext]_vars

\* getStats().activeUsers
activeUsers == Cardinality(DOMAIN buckets)

MaxTokens == config.maxTokens * Scale

\* The tokens a check found after its refill step: what it left, plus the one
\* it consumed when it admitted the request
AfterRefill == buckets[ret.key].tokens + (IF ret.allowed THEN Scale ELSE 0)

(***************************************************************************)
(* Claims about the RateLimiter                                            *)
(***************************************************************************)

\* C1: with a non-decreasing clock, every tracked bucket holds between 0 and
\* maxTokens tokens, whatever the interleaving of checks on the same or on
\* different keys, and an admitted check has consumed a whole token.
C1_TokensInRange ==
    /\ \A k \in DOMAIN buckets :
          0 <= buckets[k].tokens /\ buckets[k].tokens <= MaxTokens
    /\ (ret.op = "check" /\ ret.allowed) => buckets[ret.key].tokens <= MaxTokens - Scale

\* C1 witness: two requests on one key at the same instant, the bucket at its
\* last token: the first took it, the second is refused; both keys tracked.
C1_Witness ==
    /\ ret.op = "check" /\ ret.existed /\ ~ret.allowed
    /\ ret.at = ret.before.lastRequest
    /\ buckets[ret.key].tokens = 0
    /\ activeUsers = 2

\* C2 as stated: a check of a tracked key less than 500ms after the previous
\* check of that key is refused.
C2_Original ==
    (ret.op = "check" /\ ret.existed
        /\ ret.at - ret.before.lastRefill < MIN_REQUEST_INTERVAL)
    => ~ret.allowed

\* C2 amended: a check of a tracked key less than 500ms after the last ADMITTED
\* check of that key is refused with retryAfter 1, whatever the bucket holds.
C2_BurstSuppression ==
    (ret.op = "check" /\ ret.existed
        /\ ret.at - ret.before.lastRequest < MIN_REQUEST_INTERVAL)
    => (~ret.allowed /\ ret.hasRetry /\ ret.retryAfter = 1)

\* C2 witness: a check 400ms after an admitted one, refused with a token left.
C2_Witness ==
    /\ ret.op = "check" /\ ret.existed /\ ~ret.allowed
    /\ ret.at - ret.before.lastRequest = 400
    /\ buckets[ret.key].tokens >= Scale

\* C3: in a run of checks of one key from first sight, each 500ms or more after
\* the one before, with less than one token refilled over the run, check number
\* j <= maxTokens is admitted with remaining = maxTokens - j, and check number
\* maxTokens + 1 is refused with remaining 0 and
\* retryAfter = ceil((1 - tokens) / refillRate) > 0.
C3_ExhaustRun ==
    (ret.op = "check" /\ run[ret.key].len > 0)
    => LET j == run[ret.key].len
       IN  /\ j <= config.maxTokens
              => (ret.allowed /\ ret.remaining = config.maxTokens - j)
           /\ j = config.maxTokens + 1
              => /\ ~ret.allowed /\ ret.remaining = 0 /\ ret.hasRetry
                 /\ ret.retryAfter =
                      CeilDiv(Scale - buckets[ret.key].tokens, config.refillRate * 1000)
                 /\ ret.retryAfter > 0

\* C3 witness: maxTokens = 2, refillRate = 0.001: the third check of the run.
C3_Witness ==
    /\ ret.op = "check" /\ config.maxTokens = 2 /\ config.refillRate = 1
    /\ run[ret.key].len = 3
    /\ ~ret.allowed /\ ret.retryAfter = 999

\* C4 as stated: maxTokens + 1 admitted checks of a key never lie in a window
\* shorter than the time that refills one token.
C4_Original ==
    \A k \in Keys :
        Len(allowedAt[k]) = config.maxTokens + 1
        => (allowedAt[k][Len(allowedAt[k])].t - allowedAt[k][1].t) * config.refillRate
              >= Scale

\* C4 amended: the same, for windows in which the key's bucket was not removed
\* (no admitted check after the first of the window found the key untracked).
C4_WindowBound ==
    \A k \in Keys :
        (/\ Len(allowedAt[k]) = config.maxTokens + 1
         /\ \A i \in 2..Len(allowedAt[k]) : ~allowedAt[k][i].fresh)
        => (allowedAt[k][Len(allowedAt[k])].t - allowedAt[k][1].t) * config.refillRate
              >= Scale

\* C4 witness: maxTokens + 1 admitted checks of one bucket, the last one on the
\* token refilled since the first.
C4_Witness ==
    /\ Len(allowedAt[1]) = config.maxTokens + 1
    /\ \A i \in 2..Len(allowedAt[1]) : ~allowedAt[1][i].fresh
    /\ ret.op = "check" /\ ret.allowed /\ buckets[1].tokens = 0

C6_Refill ==
    (ret.op = "check" /\ ret.existed)
    => LET refilled == Min(MaxTokens, ret.before.tokens
                             + (ret.at - ret.before.lastRefill) * config.refillRate)
       IN  /\ buckets[ret.key].lastRefill = ret.at
           /\ AfterRefill = refilled
           /\ ret.allowed <=> (/\ ret.at - ret.before.lastRequest >= MIN_REQUEST_INTERVAL
                               /\ refilled >= Scale)
           /\ (/\ config.maxTokens = 10 /\ config.refillRate = 1000
               /\ ret.at - ret.before.lastRefill >= 5000)
              => (ret.allowed /\ ret.remaining >= 4)

\* C6 witness: five admitted checks 600ms apart, 5000ms, then the sixth.
C6_Witness ==
    /\ ret.op = "check" /\ ret.allowed /\ ret.at - ret.before.lastRefill = 5000
    /\ Len(allowedAt[1]) = 6
    /\ \A i \in 1..4 : allowedAt[1][i + 1].t - allowedAt[1][i].t = 600
    /\ ret.before.tokens < 8 * Scale

\* C7: check(a) and reset(a) leave the bucket of every other key b as it was,
\* and with it the result a check of b would return.
C7_Isolation ==
    [][\A a \in Keys :
          (ret'.op \in {"check", "reset"} /\ ret'.key = a)
          => \A b \in Keys \ {a} :
                /\ Has(b)' <=> Has(b)
                /\ Has(b) => buckets'[b] = buckets[b]
                /\ CheckOutcome(b)' = CheckOutcome(b)]_vars

\* C7 witness: key 1 is refused for want of tokens while key 2 has a token.
C7_Witness ==
    /\ ret.op = "check" /\ ret.key = 1 /\ ~ret.allowed /\ ret.remaining = 0
    /\ ret.at - ret.before.lastRequest >= MIN_REQUEST_INTERVAL
    /\ Has(2) /\ buckets[2].tokens >= Scale

\* C8: the number of tracked identities never exceeds maxUsers.
C8_ActiveUsersBounded == activeUsers <= maxUsers

\* C9: at a check with now < lastRefill the refill neither adds nor removes
\* tokens, and the bucket stays within 0..maxTokens.
C9_ClampedRefill ==
    (ret.op = "check" /\ ret.existed /\ ret.at < ret.before.lastRefill)
    => /\ AfterRefill = ret.before.tokens
       /\ 0 <= buckets[ret.key].tokens /\ buckets[ret.key].tokens <= MaxTokens

\* C23: a check that comes less than 500 ms after the last admitted request of
\* its key returns allowed = false with retryAfter = 1, takes no token (the
\* bucket holds what the refill gives it) and leaves lastRequest as it was;
\* lastRequest of a bucket changes only by an admitted check of its key.
C23_BurstFrame ==
    /\ [](( /\ ret.op = "check" /\ ret.existed
            /\ ret.at - ret.before.lastRequest < 500 )
          => /\ ~ret.allowed /\ ret.hasRetry /\ ret.retryAfter = 1
             /\ buckets[ret.key].lastRequest = ret.before.lastRequest
             /\ buckets[ret.key].tokens >= ret.before.tokens
             /\ buckets[ret.key].tokens
                  = Min(config.maxTokens * Scale,
                        ret.before.tokens
                        + (ret.at - ret.before.lastRefill) * config.refillRate))
    /\ [][\A k \in Keys :
            (Has(k) /\ Has(k)' /\ buckets'[k].lastRequest # buckets[k].lastRequest)
            => (ret'.op = "check" /\ ret'.key = k /\ ret'.allowed)]_vars

\* C23 witness: a check 400 ms after the admitted one is refused although the
\* bucket holds a whole token, and the token stays.
C23_Witness ==
    /\ ret.op = "check" /\ ret.existed /\ ~ret.allowed /\ ret.retryAfter = 1
    /\ ret.at - ret.before.lastRequest = 400
    /\ buckets[ret.key].tokens > ret.before.tokens
    /\ buckets[ret.key].tokens >= Scale
    /\ buckets[ret.key].lastRequest = ret.before.lastRequest

\* C27: every check leaves its bucket with lastRefill at the time of the
\* check; a sweep removes exactly the buckets last checked more than 5 minutes
\* before it, so none checked within the last 5 minutes, and a check of a
\* removed key is a first sight; while the limiter is not disposed, a bucket
\* that is no longer checked is eventually removed.
C27_IdleReclaimed ==
    /\ [][(ret'.op = "check" /\ ret' # ret)
          => buckets'[ret'.key].lastRefill = now]_vars
    /\ [][(ret'.op = "cleanup" /\ ret' # ret)
          => \A k \in DOMAIN buckets :
                /\ (now - buckets[k].lastRefill > 300000) => ~Has(k)'
                /\ (now - buckets[k].lastRefill <= 300000)
                   => (Has(k)' /\ buckets'[k] = buckets[k])
                /\ ~Has(k)'
                   => (/\ CheckOutcome(k)'.allowed
                       /\ CheckOutcome(k)'.entry.tokens
                            = config.maxTokens * Scale - Scale)]_vars
    /\ \A k \in Keys :
          (Has(k) /\ cleanupTimer = "set") ~> (~Has(k) \/ cleanupTimer = "null")

\* C27 witness: of two buckets, the sweep has removed the one last checked
\* more than 5 minutes before it and kept the one checked exactly 5 minutes
\* before it.
C27_Witness ==
    /\ ret.op = "cleanup"
    /\ \E k \in Keys : Has(k) /\ ret.at - buckets[k].lastRefill = 300000
    /\ \E k \in Keys :
          /\ ~Has(k) /\ allowedAt[k] # <<>>
          /\ ret.at - allowedAt[k][Len(allowedAt[k])].t > 300000

\* C28: a check of a key made retryAfter seconds after a refused check of
\* that key, with no check of the key in between, is admitted, whether the
\* refusal came from burst suppression or from an empty bucket.
C28_RetryAfterSuffices ==
    [][\A k \in Keys :
         (/\ ret.op = "check" /\ ret.key = k /\ ~ret.allowed /\ ret.hasRetry
          /\ ret'.op = "tick"
          /\ now' = ret.at + ret.retryAfter * 1000)
         => CheckOutcome(k)'.allowed]_vars

(***************************************************************************)
(* Claims about the LRUCache                                               *)
(***************************************************************************)

\* C10: the cache never holds more than maxSize entries; a set of a new key at
\* capacity removes exactly one entry and inserts the key, and no operation
\* other than a set of a new key below capacity makes the cache larger.
C10_SizeBounded ==
    /\ size <= options.maxSize
    /\ (lret.op = "set" /\ ~lret.found /\ Len(lret.before) >= options.maxSize)
       => /\ size = Len(lret.before)
          /\ Cardinality(KeysOf(lret.before) \ KeysOf(cache)) = 1
          /\ KeysOf(cache) \ KeysOf(lret.before) = {lret.key}
    /\ (lret.op = "set" /\ ~lret.found /\ Len(lret.before) < options.maxSize)
       => size = Len(lret.before) + 1
    /\ (lret.op = "set" /\ lret.found) => size = Len(lret.before)
    /\ lret.op \in {"get", "has", "delete", "clear", "prune"}
       => size <= Len(lret.before)

\* C10 witness: maxSize = 2, two entries stored, and a third key is set.
C10_Witness ==
    /\ lret.op = "set" /\ ~lret.found
    /\ options.maxSize = 2 /\ Len(lret.before) = 2 /\ size = 2

C12_Original ==
    (/\ lret.op = "get" /\ options.ttl # 0 /\ HasKey(lret.before, lret.key)
     /\ lret.at >= EntryOf(lret.before, lret.key).timestamp + options.ttl)
    => ~lret.found

\* C12 amended: a get (or has) of an entry last set or read at t0 returns it at
\* any time <= t0 + ttl; at any time > t0 + ttl it returns absent, removes the
\* entry and calls onEvict for it when one is configured. entries() yields
\* exactly the stored entries that are not expired, removing nothing.
C12_TtlExpiry ==
    /\ (lret.op \in {"get", "has"} /\ HasKey(lret.before, lret.key))
       => LET e == EntryOf(lret.before, lret.key)
          IN  IF options.ttl # 0 /\ lret.at > e.timestamp + options.ttl
              THEN /\ ~lret.found
                   /\ ~HasKey(cache, lret.key)
                   /\ evicted = IF options.onEvict
                                THEN <<[key |-> e.key, value |-> e.value]>>
                                ELSE <<>>
              ELSE /\ lret.found /\ lret.result = e.value
                   /\ HasKey(cache, lret.key)
                   /\ EntryOf(cache, lret.key).timestamp = lret.at
                   /\ evicted = <<>>
    /\ {Entries(cache, now)[i].key : i \in 1..Len(Entries(cache, now))}
         = {cache[i].key : i \in {j \in 1..Len(cache) :
                 options.ttl = 0 \/ now <= cache[j].timestamp + options.ttl}}

\* C12 witness: ttl = 1000; a get exactly 1000ms after the set finds the entry.
C12_Witness ==
    /\ lret.op = "get" /\ options.ttl = 1000 /\ HasKey(lret.before, lret.key)
    /\ lret.at = EntryOf(lret.before, lret.key).timestamp + options.ttl
    /\ lret.found

\* C24: a get that returns a value leaves its entry the most recently used one,
\* the other entries as they were and in their order; a set of a stored key
\* puts the new value in its entry and makes it the most recently used one,
\* evicts nothing and leaves the size and the other entries as they were, at
\* capacity too.
C24_TouchAndReplace ==
    /\ (lret.op = "get" /\ lret.found)
       => /\ Len(cache) = Len(lret.before)
          /\ cache[Len(cache)].key = lret.key
          /\ cache[Len(cache)].value = lret.result
          /\ SubSeq(cache, 1, Len(cache) - 1)
               = SelectSeq(lret.before, LAMBDA e : e.key # lret.key)
    /\ (lret.op = "set" /\ lret.found)
       => /\ Len(cache) = Len(lret.before)
          /\ cache[Len(cache)] = [key |-> lret.key, value |-> lret.value,
                                  timestamp |-> lret.at]
          /\ SubSeq(cache, 1, Len(cache) - 1)
               = SelectSeq(lret.before, LAMBDA e : e.key # lret.key)
          /\ evicted = <<>>

\* C24 witness: maxSize = 2 and two entries stored; the least recently used
\* one is set again with another value, and both keys stay.
C24_Witness ==
    /\ lret.op = "set" /\ lret.found
    /\ options.maxSize = 2 /\ Len(lret.before) = 2
    /\ lret.before[1].key = lret.key
    /\ lret.before[1].value # lret.value
    /\ cache[1] = lret.before[2]
    /\ cache[2].key = lret.key /\ cache[2].value = lret.value

\* C25: with onEvict configured, every operation calls it exactly once, with
\* the key and the value that was stored, for every entry whose key it takes
\* out of the cache (eviction at capacity by set, expiry found by get or has,
\* prune, delete, clear), and for no entry whose key stays.
C25_OnEvictEveryRemoval ==
    options.onEvict
    => LET gone == KeysOf(lret.before) \ KeysOf(cache)
       IN  /\ lret.op \in {"none", "tick"} => evicted = <<>>
           /\ lret.op \notin {"none", "tick"}
              => /\ Len(evicted) = Cardinality(gone)
                 /\ \A k \in gone :
                       \E i \in 1..Len(evicted) :
                          /\ evicted[i].key = k
                          /\ evicted[i].value = EntryOf(lret.before, k).value
                 /\ \A i \in 1..Len(evicted) : evicted[i].key \notin KeysOf(cache)

\* C25 witness: two expired entries removed by one prune, with two calls.
C25_Witness ==
    /\ options.onEvict
    /\ lret.op = "prune" /\ Len(lret.before) = 2 /\ cache = <<>>
    /\ Len(evicted) = 2 /\ evicted[1].key # evicted[2].key

(***************************************************************************)
(* Claims about the SessionCache                                           *)
(***************************************************************************)

\* C13: get(key) and getSessionData(key) return the stored handle exactly when
\* a session of key is stored and now - lastAccessed <= sessionTimeout, and then
\* set its lastAccessed to now and change nothing else; otherwise they return
\* absent and leave no session of key, and a key without a session gets one
\* only by a set of that key.
C13_GetLiveOnly ==
    /\ [][sret'.op \in {"get", "getSessionData"}
          => LET k == sret'.key
             IN  IF /\ HasSession(sessions, k)
                    /\ now - SessionOf(sessions, k).lastAccessed
                          <= sconfig.sessionTimeout
                 THEN /\ sret'.found
                      /\ sret'.result = SessionOf(sessions, k).session
                      /\ Len(sessions') = Len(sessions)
                      /\ \A i \in 1..Len(sessions) :
                            sessions'[i] =
                              IF sessions[i].key = k
                              THEN [sessions[i] EXCEPT !.lastAccessed = now]
                              ELSE sessions[i]
                 ELSE /\ ~sret'.found /\ sret'.result = NoHandle
                      /\ ~HasSession(sessions', k)
                      /\ sessions' = SelectSeq(sessions, LAMBDA x : x.key # k)]_vars
    /\ [][\A k \in Keys :
            (~HasSession(sessions, k) /\ HasSession(sessions', k))
            => (sret'.op = "set" /\ sret'.key = k)]_vars

\* C13 witness: a get exactly sessionTimeout after the last access returns the
\* handle.
C13_Witness ==
    /\ sret.op = "get" /\ sret.found
    /\ sret.age = sconfig.sessionTimeout
    /\ sret.result \in Handles
    /\ SessionOf(sessions, sret.key).lastAccessed = now

\* C14: the store never holds more than maxSessions sessions.
C14_SessionsBounded == activeSessions <= sconfig.maxSessions

\* C15: a set of a new key when the store holds maxSessions sessions removes
\* exactly one session, one with the smallest lastAccessed of all, and inserts
\* the new one.
C15_EvictsOldest ==
    [][(/\ sret'.op = "set" /\ ~HasSession(sessions, sret'.key)
        /\ Len(sessions) >= sconfig.maxSessions)
       => \E i \in 1..Len(sessions) :
             /\ \A j \in 1..Len(sessions) :
                   sessions[i].lastAccessed <= sessions[j].lastAccessed
             /\ Drop(sessions', {sret'.key}) = Drop(sessions, {sessions[i].key})
             /\ HasSession(sessions', sret'.key)
             /\ SessionOf(sessions', sret'.key).session = sret'.result]_vars

\* C16: a sweep removes exactly the sessions with now - lastAccessed >
\* sessionTimeout and leaves the others as they are; while the sweep is
\* scheduled, a stored session is in the end removed (or the store disposed)
\* once requests have stopped.
C16_SweepRemovesExpired ==
    /\ [][sret'.op = "cleanup"
          => sessions' = SelectSeq(sessions,
                 LAMBDA x : now - x.lastAccessed <= sconfig.sessionTimeout)]_vars
    /\ \A k \in Keys :
          (HasSession(sessions, k) /\ scTimer = "set")
          ~> (~HasSession(sessions, k) \/ scTimer = "null")

\* C16 witness: a sweep removed one session and left the other, which was
\* accessed within the timeout.
C16_Witness ==
    /\ sret.op = "cleanup" /\ sret.size = 2 /\ Len(sessions) = 1
    /\ now - sessions[1].lastAccessed <= sconfig.sessionTimeout

\* C29: a session that has been idle for more than sessionTimeout is not
\* handed out again unless it is set again; stated for the shortest sequence
\* of calls: a get or getSessionData of a key that follows an updateHistory or
\* incrementMessageCount of that key, made when its session had been idle for
\* more than sessionTimeout, returns no session.
C29_ExpiredNeverReturned ==
    [][\A k \in Keys :
         (/\ sret.op \in {"updateHistory", "incrementMessageCount"}
          /\ sret.key = k /\ sret.found
          /\ sret.age > sconfig.sessionTimeout
          /\ sret'.op \in {"get", "getSessionData"} /\ sret'.key = k)
         => ~sret'.found]_vars

\* C30: a set of a key that has a stored session replaces that session only:
\* the session of every other key is still stored afterwards, as it was, also
\* when the store holds maxSessions sessions.
C30_SetReplacesOnly ==
    [][\A k \in Keys :
         (sret'.op = "set" /\ sret'.key = k /\ HasSession(sessions, k))
         => \A j \in Keys \ {k} :
               HasSession(sessions, j)
               => /\ HasSession(sessions', j)
                  /\ SessionOf(sessions', j) = SessionOf(sessions, j)]_vars

(***************************************************************************)
(* Claims about the history trimmer                                        *)
(***************************************************************************)

\* C20: for a history of well-formed turns, trimHistory returns the longest
\* suffix of it, turns unchanged and in order, that has at most maxMessages
\* turns and a sum of token estimates of at most 8000; 25 turns within the
\* budget, with maxMessages = 20, give turns 6 to 25.
C20_LongestSuffix ==
    (hout.done /\ hin.isArray)
    => LET h == hin.turns
           Last(j) == SubSeq(h, Len(h) - j + 1, Len(h))
           Fits(j) == j <= hout.maxMessages /\ TokensOf(Last(j)) <= DEFAULT_MAX_TOKENS
       IN  /\ \E j \in 0..Len(h) :
                 /\ Fits(j)
                 /\ \A l \in 0..Len(h) : Fits(l) => l <= j
                 /\ hout.result = Last(j)
           /\ (/\ Len(h) = 25 /\ hout.maxMessages = 20
               /\ TokensOf(h) <= DEFAULT_MAX_TOKENS)
              => hout.result = SubSeq(h, 6, 25)

\* C20 witness: 25 turns, the last two of 4000 tokens each: cut to 20 by count
\* and then to the last two by tokens.
C20_Witness ==
    /\ hout.done /\ hin.isArray /\ Len(hin.turns) = 25
    /\ hout.maxMessages = 20
    /\ Len(hout.result) = 2
    /\ TokensOf(hout.result) = DEFAULT_MAX_TOKENS

\* C21: trimming is idempotent: trimHistory applied, with the same limits, to
\* what trimHistory returned gives that same history back.
C21_Idempotent ==
    hout.again => hout.second = hout.result

\* C21 witness: a history that the first trimming cut, to a history that is
\* not empty, trimmed a second time.
C21_Witness ==
    /\ hout.again /\ hin.isArray
    /\ Len(hout.result) > 0
    /\ Len(hout.result) < Len(hin.turns)
    /\ hout.second = hout.result

\* C26 as stated: the estimate of a turn is ceil(c / 4) + 10 with c the number
\* of characters of its text parts taken together.
C26_Original ==
    (hout.done /\ hin.isArray)
    => \A i \in 1..Len(hin.turns) :
         "parts" \in DOMAIN hin.turns[i]
         => LET RECURSIVE Chars(_)
                Chars(parts) ==
                    IF Len(parts) = 0 THEN 0
                    ELSE (IF parts[1] = NoText THEN 0 ELSE parts[1])
                         + Chars(Tail(parts))
            IN  MessageTokens(hin.turns[i])
                = CeilDiv(Chars(hin.turns[i].parts), 4) + 10

\* C26: the estimate of a turn is ceil(c / 4) + 10 with c the length of the
\* texts of its parts joined by single spaces: the characters of the text
\* parts, and one more for every part after the first, a part with no text
\* counting as an empty text; a turn of no part, or of one empty text, costs 10.
C26_TokenEstimate ==
    (hout.done /\ hin.isArray)
    => \A i \in 1..Len(hin.turns) :
         "parts" \in DOMAIN hin.turns[i]
         => LET parts == hin.turns[i].parts
                RECURSIVE Chars(_)
                Chars(ps) ==
                    IF Len(ps) = 0 THEN 0
                    ELSE (IF ps[1] = NoText THEN 0 ELSE ps[1]) + Chars(Tail(ps))
                joined == Chars(parts) + (IF Len(parts) = 0 THEN 0 ELSE Len(parts) - 1)
            IN  /\ MessageTokens(hin.turns[i]) = CeilDiv(joined, 4) + 10
                /\ (parts = <<>> \/ parts = <<0>>) => MessageTokens(hin.turns[i]) = 10

\* C26 witness: two turns, each of two texts of 7980 characters: 3991 + 10
\* tokens each with the space between the texts, so only the last one is kept
\* (without the spaces both would fit the 8000 tokens).
C26_Witness ==
    /\ hout.done /\ ~hout.threw
    /\ Len(hin.turns) = 2
    /\ hin.turns[1] = [role |-> "model", parts |-> <<7980, 7980>>]
    /\ hin.turns[2] = hin.turns[1]
    /\ hout.result = <<hin.turns[2]>>

\* C22: the trimmer never raises, whatever JSON the client sent as history:
\* what is not an array gives the empty history, and an array, turns with no
\* parts array or with parts of no text among them, gives a result.
C22_NeverThrows ==
    hout.done
    => /\ ~hout.threw
       /\ ~hin.isArray => hout.result = <<>>

(***************************************************************************)
(* Claims about the request pipeline                                       *)
(***************************************************************************)

\* C17: among admitted requests of one user key, a request starts a chat and
\* calls set exactly when the store holds no live session of the key, and
\* otherwise uses the stored handle: two requests that both created a session
\* of the key are more than sessionTimeout apart, and every request handled
\* since the stored session was created uses the stored handle.
C17_SingleCreation ==
    /\ [](\A r1, r2 \in Reqs :
            (/\ r1 # r2 /\ reqs[r1].userId = reqs[r2].userId
             /\ reqs[r1].created /\ reqs[r2].created /\ reqs[r1].at <= reqs[r2].at)
            => reqs[r2].at - reqs[r1].at > sconfig.sessionTimeout)
    /\ [](\A r \in Reqs :
            (/\ reqs[r].chat # NoHandle /\ HasSession(sessions, reqs[r].userId)
             /\ reqs[r].at >= SessionOf(sessions, reqs[r].userId).createdAt)
            => reqs[r].chat = SessionOf(sessions, reqs[r].userId).session)
    /\ [][\A r \in Reqs :
            (reqs[r].pc = "parsed" /\ reqs'[r].pc = "upstream")
            => LET k == reqs[r].userId
                   live == /\ HasSession(sessions, k)
                           /\ now - SessionOf(sessions, k).lastAccessed
                                 <= sconfig.sessionTimeout
               IN  /\ reqs'[r].created <=> ~live
                   /\ live => /\ reqs'[r].chat = SessionOf(sessions, k).session
                              /\ SessionOf(sessions', k).session = reqs'[r].chat
                              /\ SessionOf(sessions', k).createdAt
                                    = SessionOf(sessions, k).createdAt
                   /\ ~live => /\ reqs'[r].chat = r
                               /\ SessionOf(sessions', k).session = r]_vars

\* C17 witness: two requests of one key, both waiting for the model, the second
\* admitted 600ms after the first: one created the session, the other uses its
\* handle.
C17_Witness ==
    /\ reqs[1].pc = "upstream" /\ reqs[2].pc = "upstream"
    /\ reqs[1].userId = reqs[2].userId /\ reqs[2].at = reqs[1].at + 600
    /\ reqs[1].created /\ ~reqs[2].created
    /\ reqs[2].chat = reqs[1].chat /\ reqs[1].chat = 1

\* C18: a request reaches the session store and the model only after
\* check(userId) admitted it; a request the check refused ends with status 429
\* and the hint retryAfter (1 when the check gave none), and leaves the session
\* store as it was; the store changes only by an admitted request or a sweep.
C18_RateGate ==
    /\ [](\A r \in Reqs :
            (reqs[r].pc = "upstream" \/ reqs[r].status = 200
             \/ reqs[r].chat # NoHandle \/ reqs[r].created)
            => reqs[r].allowed)
    /\ [][\A r \in Reqs :
            (reqs[r].pc = "parsed" /\ reqs'[r].pc # "parsed" /\ reqs[r].userId # NoUser)
            => /\ ret'.op = "check" /\ ret'.key = reqs[r].userId /\ ret'.at = now
               /\ IF ret'.allowed
                  THEN reqs'[r].pc = "upstream" /\ reqs'[r].allowed
                  ELSE /\ reqs'[r].pc = "done" /\ reqs'[r].status = 429
                       /\ reqs'[r].retryAfter =
                             (IF ret'.hasRetry THEN ret'.retryAfter ELSE 1)
                       /\ reqs'[r].retryAfter >= 1
                       /\ reqs'[r].chat = NoHandle /\ ~reqs'[r].created
                       /\ scState' = scState]_vars
    /\ [][sessions' # sessions
          => \/ sret'.op = "cleanup"
             \/ \E r \in Reqs : /\ reqs[r].pc = "parsed" /\ reqs'[r].pc = "upstream"
                                 /\ ret'.op = "check" /\ ret'.allowed
                                 /\ ret'.key = reqs[r].userId]_vars

\* C18 witness: the limiter holds one token; the first request of the key is
\* waiting for the model, the second, 600ms later, was refused with 429 and
\* retryAfter 1000, and the store holds the one session the first created.
C18_Witness ==
    /\ reqs[1].pc = "upstream" /\ reqs[1].created
    /\ reqs[2].pc = "done" /\ reqs[2].status = 429 /\ reqs[2].retryAfter = 1000
    /\ reqs[2].userId = reqs[1].userId
    /\ Len(sessions) = 1 /\ sessions[1].session = 1

\* C19: every history stored in the session store has at most
\* MAX_HISTORY_MESSAGES turns and a sum of token estimates within the budget
\* of 8000.
C19_StoredHistoryTrimmed ==
    \A i \in 1..Len(sessions) :
        /\ Len(sessions[i].history) <= MAX_HISTORY_MESSAGES
        /\ TokensOf(sessions[i].history) <= DEFAULT_MAX_TOKENS

====
